---- MODULE Spec2Model ----
(***************************************************************************)
(* SwatNotes: the encrypted backup and restore engine                      *)
(* (src-tauri/src/services/backup.rs) over the content-addressed blob       *)
(* store (storage/blob_store.rs) and the cipher envelope (crypto.rs).       *)
(*                                                                         *)
(* The state is the on-disk state of the application data directory (the   *)
(* live database file, the live blobs directory, the backups directory,    *)
(* the aside paths and extraction directory of a restore), the backups     *)
(* table and the retention setting of the repository, the wall clock, and  *)
(* the position and locals of one create_backup call and one               *)
(* restore_backup call.  Every await point of the two handlers that        *)
(* touches the disk is one action, so that other tasks interleave there.   *)
(*                                                                         *)
(* The blob store is followed on its own as well (SpecStore, SpecStoreSeq): *)
(* BlobStore::write step by step for each task that calls it, and read,    *)
(* exists, delete and list_all on the same directory.  SpecCrypto seals an *)
(* envelope, alters it and opens it again.  SpecScheduler follows the      *)
(* tasks that call schedule_backup and cancel_backup on the one            *)
(* SchedulerService (services/scheduler.rs) and the two locks it holds.    *)
(*                                                                         *)
(* An absent file or directory is the empty set, a present one the         *)
(* singleton of its content (None / Some).                                 *)
(***************************************************************************)
EXTENDS Naturals, Sequences, FiniteSets, TLC

\* ------------------------------------------------------------------ bounds

\* The wall clock runs over the seconds 0..MaxSec.
MaxSec == 1
\* create_backup and restore_backup are called at most MaxCalls times in all.
MaxCalls == 3
\* At most MaxFaults file-system or database calls fail.
MaxFaults == 1
\* BlobStore::write is run by MaxWriters tasks at a time.
MaxWriters == 2
\* schedule_backup and cancel_backup are run by MaxCallers tasks at a time,
\* MaxSchedCalls times in all.
MaxCallers == 2
MaxSchedCalls == 3

Secs == 0..MaxSec
Writers == 1..MaxWriters
Callers == 1..MaxCallers

\* ------------------------------------------------------------------ values

None == {}
Some(x) == {x}
The(s) == CHOOSE x \in s : TRUE

\* Byte sequences: two database images and one attachment.
DbImages == {<<1>>, <<2, 2>>}
BlobDatas == {<<7, 7, 7>>}
\* The byte sequences BlobStore::write is called with.
StoreDatas == BlobDatas \cup {<<8>>}
Passwords == {"correct-horse", "wrong"}
\* The password the user backs up under.
BackupPasswords == {"correct-horse"}
\* What OsRng can return for a salt and for a nonce.
Salts == {"s1"}
Nonces == {"n1"}

DEFAULT_RETENTION_COUNT == 10

\* The values the settings row backup_retention_count can hold.
RetentionSettings == {None, Some("0"), Some("1"), Some("abc")}

\* str::parse::<usize>
ParseUsize(s) ==
    CASE s = "0" -> Some(0)
      [] s = "1" -> Some(1)
      [] s = "2" -> Some(2)
      [] OTHER -> None

\* SHA-256 rendered as lowercase hex: injective on the model's byte sequences.
calculate_checksum(data) == <<"sha256", data>>

\* BlobStore::calculate_hash: the identifier of a blob.
calculate_hash(data) == <<"sha256", data>>

\* A file of the blobs directory: its name (the identifier) and its bytes.
BlobFile(data) == [name |-> calculate_hash(data), bytes |-> data]

\* BlobStore::write on a blobs directory that exists: nothing when the
\* identifier is present, else the new file.
BlobStoreWrite(dir, data) ==
    IF \E f \in dir : f.name = calculate_hash(data)
    THEN dir
    ELSE dir \cup {BlobFile(data)}

\* A delete that removes every file of the directory.
BlobStoreDeleteAll(dir, hash) == {}

\* BlobStore::delete
BlobStoreDelete(dir, hash) == {f \in dir : f.name # hash}

\* Strings that are no digest of the model's byte sequences: their length
\* and what their characters are ("hex": 0-9a-f, "HEX": 0-9A-F with a
\* letter, "other": some character is no hexadecimal digit).
Text(len, chars) == <<"str", len, chars>>

\* path.with_extension("tmp") of blob_store.rs:53: the file name <hash>.tmp.
TempName(hash) == <<"tmp", hash>>

\* str::len of a file name or identifier.
NameLen(name) ==
    CASE name[1] = "sha256" -> 64
      [] name[1] = "tmp" -> 68
      [] OTHER -> name[2]

\* hash.chars().all(|c| c.is_ascii_hexdigit()) of blob_store.rs:148:
\* is_ascii_hexdigit is true of 0-9, a-f and A-F.
AllHexDigits(name) ==
    CASE name[1] = "sha256" -> TRUE
      [] name[1] = "tmp" -> FALSE
      [] OTHER -> name[3] \in {"hex", "HEX"}

\* Every character is one of 0-9a-f.
IsLowerHex(name) ==
    CASE name[1] = "sha256" -> TRUE
      [] name[1] = "tmp" -> FALSE
      [] OTHER -> name[3] = "hex"

\* BlobStore::list_all: the file names the directory walk keeps.
list_all(dir) == {f.name : f \in {x \in dir : NameLen(x.name) = 64 /\ AllHexDigits(x.name)}}

\* BlobStore::get_path: &hash[0..2] and &hash[2..4] panic on a string shorter
\* than four bytes; otherwise the path is root/<0..2>/<2..4>/<hash>.
get_path(hash) == IF NameLen(hash) < 4 THEN None ELSE Some(hash)

\* path.exists() on the path of a name.
PathExists(dir, name) == \E f \in dir : f.name = name

\* The bytes of the file of that name.
FileBytes(dir, name) == (CHOOSE f \in dir : f.name = name).bytes

\* The directory with the file of that name created or overwritten.
PutFile(dir, name, bytes) == {f \in dir : f.name # name} \cup {[name |-> name, bytes |-> bytes]}

\* The directory without the file of that name.
RemoveFile(dir, name) == {f \in dir : f.name # name}

\* BlobStore::read of an identifier that is present.
BlobStoreRead(dir, hash) == (CHOOSE f \in dir : f.name = hash).bytes

\* Archive paths.
DbPath == <<"db.sqlite">>
ManifestPath == <<"manifest.json">>
BlobRelPath(hash) == <<"blobs", hash>>
IsBlobPath(p) == Len(p) = 2 /\ p[1] = "blobs"

\* ------------------------------------------------------------------ crypto

\* Argon2id over (password, salt).
derive_key(password, salt) == <<"argon2id", password, salt>>

\* AES-256-GCM: the ciphertext with its tag is sealed under (key, nonce).
AeadEncrypt(key, nonce, plaintext) ==
    [key |-> key, nonce |-> nonce, plaintext |-> plaintext, intact |-> TRUE]

\* A cipher that returns what the key stream gives without verifying the tag.
AeadDecryptUnchecked(key, nonce, ciphertext) ==
    IF ciphertext.key = key /\ ciphertext.nonce = nonce
    THEN Some(ciphertext.plaintext)
    ELSE Some(<<0>>)

\* The tag verifies only under the sealing key and nonce, on unaltered bytes.
AeadDecrypt(key, nonce, ciphertext) ==
    IF ciphertext.intact /\ ciphertext.key = key /\ ciphertext.nonce = nonce
    THEN Some(ciphertext.plaintext)
    ELSE None

encrypt(plaintext, password, salt, nonce) ==
    [kind |-> "envelope", salt |-> salt, nonce |-> nonce,
     ciphertext |-> AeadEncrypt(derive_key(password, salt), nonce, plaintext)]

\* A decrypt that derives the key with a fixed salt, not the envelope's.
decryptFixedSalt(encrypted, password) ==
    AeadDecrypt(derive_key(password, "s1"), encrypted.nonce, encrypted.ciphertext)

\* crypto::decrypt, lines 56-65: the plaintext, or None when the cipher
\* returns an error.
decrypt(encrypted, password) ==
    AeadDecrypt(derive_key(password, encrypted.salt), encrypted.nonce,
                encrypted.ciphertext)

\* Why the tag did not verify: the cipher knows no such thing, aead::Error
\* is an opaque unit struct.
AeadFailure(encrypted, password) ==
    IF derive_key(password, encrypted.salt) # encrypted.ciphertext.key THEN "key"
    ELSE IF encrypted.nonce # encrypted.ciphertext.nonce THEN "nonce"
    ELSE "tag"

\* An error that tells the causes apart.
DecryptFailureNamingCause(cause) == <<"decrypt", cause>>

\* Line 68: AppError::Generic("Decryption failed: aead::Error"), whatever
\* made the cipher fail.
DecryptFailure(cause) == "decrypt"

\* crypto::decrypt as a Result.
DecryptResult(encrypted, password) ==
    IF decrypt(encrypted, password) = None
    THEN [ok |-> FALSE, value |-> None,
          err |-> DecryptFailure(AeadFailure(encrypted, password))]
    ELSE [ok |-> TRUE, value |-> decrypt(encrypted, password), err |-> "none"]

\* A backup file whose write stopped midway, and bytes that are no JSON
\* envelope at all.
PartialFile == [kind |-> "partial"]
GarbageFile == [kind |-> "garbage"]

\* serde_json::from_slice::<EncryptedData>
ParseEnvelope(file) == IF file.kind = "envelope" THEN Some(file) ELSE None

\* The ways one altered byte changes a serialized envelope.
TamperedCopies(file) ==
    IF file.kind # "envelope" THEN {}
    ELSE { [file EXCEPT !.salt = "altered"],
           [file EXCEPT !.nonce = "altered"],
           [file EXCEPT !.ciphertext.intact = FALSE],
           GarbageFile }

\* ------------------------------------------------------------------ archive

\* An entry whose checksum is the digest of the hasher before any update.
FileEntryEmptyDigest(path, data) ==
    [path |-> path, size |-> Len(data), checksum |-> calculate_checksum(<<>>)]

\* BackupManifest / FileEntry
FileEntry(path, data) ==
    [path |-> path, size |-> Len(data), checksum |-> calculate_checksum(data)]

Manifest(ts, entries) ==
    [version |-> "CARGO_PKG_VERSION", timestamp |-> ts, files |-> entries]

\* A ZIP archive: its member files other than manifest.json, and the member
\* manifest.json (absent, unparsable, or a manifest).
Archive(files, manifest) == [zip |-> TRUE, files |-> files, manifest |-> manifest]
NotAZip == [zip |-> FALSE, files |-> {}, manifest |-> None]
UnparsableManifest == [version |-> "?", timestamp |-> 0, files |-> <<>>, bad |-> TRUE]

Member(path, data) == [path |-> path, bytes |-> data]

\* ZipArchive::by_name
by_name(archive, path) == {m.bytes : m \in {x \in archive.files : x.path = path}}

\* All orders in which a directory walk can return a set of identifiers.
Orders(S) == {q \in [1..Cardinality(S) -> S] : \A i, j \in 1..Cardinality(S) : i # j => q[i] # q[j]}

\* A packaging whose entries carry the size of the ZIP member with its header,
\* which holds the modification time.
PackageArchiveStamped(ts, db, dir, order) ==
    LET stamped(e) == [e EXCEPT !.size = e.size + ts]
        dbEntry == IF db = None THEN <<>> ELSE <<stamped(FileEntry(DbPath, The(db)))>>
        blobEntry(h) == stamped(FileEntry(BlobRelPath(h), BlobStoreRead(dir, h)))
        dbMember == IF db = None THEN {} ELSE {Member(DbPath, The(db))}
        blobMembers == {Member(BlobRelPath(h), BlobStoreRead(dir, h)) : h \in list_all(dir)}
    IN  Archive(dbMember \cup blobMembers,
                Some(Manifest(ts, dbEntry \o [i \in 1..Len(order) |-> blobEntry(order[i])])))

\* create_backup lines 83-135: the archive packaged from the database bytes
\* read (db: None when db.sqlite does not exist) and the blobs in the order
\* list_all returned them.
PackageArchive(ts, db, dir, order) ==
    LET dbEntry == IF db = None THEN <<>> ELSE <<FileEntry(DbPath, The(db))>>
        blobEntry(h) == FileEntry(BlobRelPath(h), BlobStoreRead(dir, h))
        dbMember == IF db = None THEN {} ELSE {Member(DbPath, The(db))}
        blobMembers == {Member(BlobRelPath(h), BlobStoreRead(dir, h)) : h \in list_all(dir)}
    IN  Archive(dbMember \cup blobMembers,
                Some(Manifest(ts, dbEntry \o [i \in 1..Len(order) |-> blobEntry(order[i])])))

\* Archives that restore_backup can be handed and create_backup never wrote:
\* files sealed under the user's password that are no ZIP, lack manifest.json,
\* hold an unparsable manifest, list a member the archive lacks, record a
\* checksum that is not the member's, list manifest.json itself, or hold no
\* db.sqlite.
CraftedArchives ==
    LET d1 == <<1>>
        d2 == <<2, 2>>
        b  == <<7, 7, 7>>
        bp == BlobRelPath(calculate_hash(b))
    IN  { NotAZip,
          Archive({Member(DbPath, d1)}, None),
          Archive({Member(DbPath, d1)}, Some(UnparsableManifest)),
          Archive({Member(DbPath, d1)},
                  Some(Manifest(0, <<FileEntry(DbPath, d1), FileEntry(bp, b)>>))),
          Archive({Member(DbPath, d1), Member(bp, b)},
                  Some(Manifest(0, <<FileEntry(DbPath, d1),
                                     [FileEntry(bp, b) EXCEPT !.checksum = calculate_checksum(d2)]>>))),
          Archive({Member(DbPath, d2)},
                  Some(Manifest(0, <<FileEntry(ManifestPath, d1), FileEntry(DbPath, d2)>>))),
          Archive({Member(bp, b)}, Some(Manifest(0, <<FileEntry(bp, b)>>))) }

\* ------------------------------------------------------------------ state

VARIABLES
    captured,       \* for each backup_<s>.enc written whole: the live state its call found
    calls,          \* the calls made so far
    sec,            \* Utc::now(), in seconds
    faults,         \* the file-system and database calls that have failed so far
    liveDb,         \* app_data_dir/db.sqlite: None or Some(bytes)
    liveBlobs,      \* app_data_dir/blobs: None or Some(set of blob files)
    encFiles,       \* backups/backup_<s>.enc for each second s: None or Some(file)
    zipTmp,         \* the seconds s for which backups/<s>.zip.tmp exists
    records,        \* the backups table, in insertion (timestamp) order
    retention,      \* the settings row backup_retention_count
    b_pc, b_pwd, b_ts, b_db, b_zip, b_enc, b_result,     \* create_backup
    b_pre,          \* the backups directory and table when create_backup was called
    r_pc, r_pwd, r_zip, r_idx, r_result,                 \* restore_backup
    r_pre,          \* the live state and backups directory when restore_backup was called
    restoreTmp,     \* backups/restore_temp_<ts> of the current restore
    asideDb,        \* whether db.sqlite_backup_<ts> of the current restore exists
    asideBlobs,     \* whether blobs_backup_<ts> of the current restore exists
    cleanupPending, \* the spawned cleanup task of the last successful restore
    graceElapsed,   \* whether the sleep of that task has returned
    w_pc, w_data, w_call, w_at, w_result,   \* BlobStore::write, for each writer
    w_known,        \* whether an earlier write of the writer's bytes had returned
    written,        \* the blobs a write has returned and no delete was called for
    lastCall,       \* the last read, exists, delete or list_all and its result
    c_plain, c_pwd, \* what encrypt was called with
    c_env,          \* the envelope encrypt returned, as it is now
    c_altered,      \* the field of the envelope a byte was altered in
    c_try,          \* the password decrypt was called with
    c_result,       \* what crypto::decrypt returned
    c_restore,      \* what lines 226-230 of restore_backup returned
    c_failed,       \* the failures of decrypt and of restore_backup so far
    p_db, p_blobs,  \* the database bytes and the blobs directory two backups package
    p_first, p_second,  \* the archives of the two backups
    jobs,           \* the jobs registered in the JobScheduler
    current_job_id, \* SchedulerService.current_job_id: None or Some(id)
    schedulerLock,  \* the task holding the write lock of scheduler, or Free
    jobIdLock,      \* the task holding the write lock of current_job_id, or Free
    uuids,          \* the job identifiers generated so far
    s_calls,        \* the schedule_backup and cancel_backup calls made so far
    s_pc,           \* each calling task's position
    s_op,           \* the function each task called
    s_enabled,      \* the enabled argument of each task's schedule_backup
    s_job,          \* job.guid() of the job each task's schedule_backup created
    s_result        \* what each task's call returned

diskVars == <<liveDb, liveBlobs, encFiles, zipTmp, restoreTmp, asideDb, asideBlobs>>
repoVars == <<records, retention>>
bVars == <<b_pc, b_pwd, b_ts, b_db, b_zip, b_enc, b_result, b_pre>>
rVars == <<r_pc, r_pwd, r_zip, r_idx, r_result, r_pre>>
cleanupVars == <<cleanupPending, graceElapsed>>
storeVars == <<w_pc, w_data, w_call, w_at, w_result, w_known, written, lastCall>>
cryptoVars == <<c_plain, c_pwd, c_env, c_altered, c_try, c_result, c_restore, c_failed>>
pkgVars == <<p_db, p_blobs, p_first, p_second>>
schedVars == <<jobs, current_job_id, schedulerLock, jobIdLock, uuids, s_calls, s_pc, s_op, s_enabled,
               s_job, s_result>>
auxVars == <<storeVars, cryptoVars, pkgVars, schedVars>>
vars == <<sec, calls, captured, faults, diskVars, repoVars, bVars, rVars, cleanupVars, auxVars>>

Ok(v) == [ok |-> TRUE, value |-> v, err |-> "none"]
Err(e) == [ok |-> FALSE, value |-> None, err |-> e]
NoResult == [ok |-> FALSE, value |-> None, err |-> "pending"]
NoArchive == NotAZip
Panic == [ok |-> FALSE, value |-> None, err |-> "panic"]
NoCall == [op |-> "none", arg |-> <<>>, result |-> NoResult]
NoSnapshot == [db |-> None, blobs |-> None, files |-> <<>>, records |-> <<>>]

\* An I/O operation fails, or does not.
Fault == faults < MaxFaults /\ faults' = faults + 1
NoFault == UNCHANGED faults

\* No task holds the lock.
Free == 0

InitLive ==
    /\ sec = 0
    /\ calls = 0
    /\ faults = 0
    /\ liveDb = Some(<<1>>)
    /\ liveBlobs = Some({})
    /\ encFiles = [s \in Secs |-> None]
    /\ zipTmp = {}
    /\ records = <<>>
    /\ retention \in RetentionSettings
    /\ captured = [s \in Secs |-> None]
    /\ b_pc = "idle" /\ b_pwd = "" /\ b_ts = 0 /\ b_db = None
    /\ b_zip = NoArchive /\ b_enc = GarbageFile /\ b_result = NoResult
    /\ b_pre = NoSnapshot
    /\ r_pc = "idle" /\ r_pwd = "" /\ r_zip = NoArchive /\ r_idx = 0
    /\ r_result = NoResult /\ r_pre = NoSnapshot
    /\ restoreTmp = None /\ asideDb = FALSE /\ asideBlobs = FALSE
    /\ cleanupPending = FALSE
    /\ graceElapsed = FALSE
    /\ w_pc = [w \in Writers |-> "idle"]
    /\ w_data = [w \in Writers |-> <<>>]
    /\ w_call = [w \in Writers |-> 0]
    /\ w_at = [w \in Writers |-> "none"]
    /\ w_result = [w \in Writers |-> NoResult]
    /\ w_known = [w \in Writers |-> FALSE]
    /\ written = {}
    /\ lastCall = NoCall
    /\ c_plain = <<>> /\ c_pwd = "" /\ c_env = GarbageFile /\ c_altered = "none"
    /\ c_try = "" /\ c_result = NoResult /\ c_restore = NoResult /\ c_failed = {}
    /\ p_first = NoArchive /\ p_second = NoArchive
    /\ jobs = {}
    /\ current_job_id = None
    /\ schedulerLock = Free /\ jobIdLock = Free
    /\ uuids = 0
    /\ s_calls = 0
    /\ s_pc = [t \in Callers |-> "idle"]
    /\ s_op = [t \in Callers |-> "none"]
    /\ s_enabled = [t \in Callers |-> FALSE]
    /\ s_job = [t \in Callers |-> 0]
    /\ s_result = [t \in Callers |-> NoResult]

Init == InitLive /\ p_db = None /\ p_blobs = {}

\* ------------------------------------------------------------------ restore_backup

\* The files restore_backup can be pointed at: a path of the backups
\* directory, a copy of a backup with one byte altered, a crafted envelope.
RestoreInputs ==
    {encFiles[s] : s \in Secs}
    \cup {Some(t) : t \in UNION {TamperedCopies(The(encFiles[s])) : s \in {x \in Secs : encFiles[x] # None}}}
    \cup {Some(encrypt(a, "correct-horse", "s1", "n1")) : a \in CraftedArchives}

RFail(e) ==
    /\ r_pc' = "returned"
    /\ r_result' = Err(e)

\* Lines 226-230: read the file, parse the envelope, decrypt.
ReadAndDecrypt(file, password) ==
    IF file = None THEN Err("io")
    ELSE IF ParseEnvelope(The(file)) = None THEN Err("format")
    ELSE DecryptResult(The(ParseEnvelope(The(file))), password)

RBegin(file, password) ==
    /\ r_pc = "idle"
    /\ ~cleanupPending
    /\ calls < MaxCalls
    /\ calls' = calls + 1
    /\ r_pwd' = password
    /\ r_pre' = [db |-> liveDb, blobs |-> liveBlobs, files |-> encFiles, records |-> records]
    /\ LET res == ReadAndDecrypt(file, password)
       IN  IF res.ok
           THEN /\ r_pc' = "mktemp"
                /\ r_zip' = The(res.value)
                /\ r_result' = NoResult
           ELSE /\ RFail(res.err)
                /\ r_zip' = NoArchive
    /\ r_idx' = 0
    /\ UNCHANGED <<sec, auxVars, captured, faults, diskVars, repoVars, bVars, cleanupVars>>

\* Lines 237-246: open the ZIP, read and parse manifest.json.
ReadManifest(archive) ==
    IF ~archive.zip THEN Err("zip")
    ELSE IF archive.manifest = None THEN Err("zip")
    ELSE IF "bad" \in DOMAIN The(archive.manifest) THEN Err("json")
    ELSE Ok(archive.manifest)

ManifestFiles(archive) == The(archive.manifest).files

\* Lines 252 and 287: the loop goes on while entries are left, then the
\* swap begins.
AfterEntry(archive, idx) ==
    IF idx > Len(ManifestFiles(archive)) THEN "db_aside" ELSE "verify"

\* Lines 233-246: create_dir_all(restore_temp_<now>), and up to the next
\* await the ZIP is opened and the manifest parsed; an error there returns
\* with the directory in place.
RMkTemp ==
    /\ r_pc = "mktemp"
    /\ \/ /\ NoFault
          /\ restoreTmp' = Some({})
          /\ IF ReadManifest(r_zip).ok
             THEN /\ r_pc' = AfterEntry(r_zip, 1)
                  /\ r_idx' = 1
                  /\ UNCHANGED r_result
             ELSE /\ RFail(ReadManifest(r_zip).err)
                  /\ UNCHANGED r_idx
       \/ /\ Fault
          /\ RFail("io")
          /\ UNCHANGED <<restoreTmp, r_idx>>
    /\ UNCHANGED <<sec, auxVars, calls, captured, liveDb, liveBlobs, encFiles, zipTmp, asideDb, asideBlobs,
                   repoVars, bVars, r_pwd, r_zip, r_pre, cleanupVars>>

\* A comparison that accepts every member.
ChecksumAlwaysMatches(contents, file_entry) == TRUE

\* Line 268: the comparison of the recomputed checksum with the recorded one.
ChecksumMatches(contents, file_entry) ==
    calculate_checksum(contents) = file_entry.checksum

\* An extraction that writes db.sqlite over the live file.
LiveDbWrittenInPlace(db, file_entry, contents) ==
    IF file_entry.path = DbPath THEN Some(contents) ELSE db

\* Lines 278-282: where an extracted member is written; the live database
\* file is not among the places.
LiveDbAfterExtract(db, file_entry, contents) == db

\* Lines 252-285, one iteration of the loop over manifest.files.
RVerifyEntry ==
    /\ r_pc = "verify"
    /\ LET file_entry == ManifestFiles(r_zip)[r_idx]
           found == by_name(r_zip, file_entry.path)
       IN  \/ /\ file_entry.path = ManifestPath
              /\ NoFault
              /\ r_idx' = r_idx + 1
              /\ r_pc' = AfterEntry(r_zip, r_idx + 1)
              /\ UNCHANGED <<r_result, restoreTmp, liveDb>>
           \/ /\ file_entry.path # ManifestPath
              /\ found = None
              /\ NoFault
              /\ RFail("zip")
              /\ UNCHANGED <<r_idx, restoreTmp, liveDb>>
           \/ /\ file_entry.path # ManifestPath
              /\ found # None
              /\ ~ChecksumMatches(The(found), file_entry)
              /\ RFail("checksum")
              /\ \/ NoFault /\ restoreTmp' = None
                 \/ Fault /\ UNCHANGED restoreTmp
              /\ UNCHANGED <<r_idx, liveDb>>
           \/ /\ file_entry.path # ManifestPath
              /\ found # None
              /\ ChecksumMatches(The(found), file_entry)
              /\ \/ /\ NoFault
                    /\ restoreTmp' = Some(The(restoreTmp) \cup {Member(file_entry.path, The(found))})
                    /\ liveDb' = LiveDbAfterExtract(liveDb, file_entry, The(found))
                    /\ r_idx' = r_idx + 1
                    /\ r_pc' = AfterEntry(r_zip, r_idx + 1)
                    /\ UNCHANGED r_result
                 \/ /\ Fault
                    /\ RFail("io")
                    /\ UNCHANGED <<r_idx, restoreTmp, liveDb>>
    /\ UNCHANGED <<sec, auxVars, calls, captured, liveBlobs, encFiles, zipTmp, asideDb, asideBlobs,
                   repoVars, bVars, r_pwd, r_zip, r_pre, cleanupVars>>

\* Lines 288 and 301: the extracted db.sqlite, when there is one.
RestoredDb(tmp) == {m.bytes : m \in {x \in tmp : x.path = DbPath}}
\* A swap that finds no extracted blobs directory.
RestoredBlobsLost(tmp) == None

\* Lines 308 and 315: the extracted blobs directory, when there is one.
RestoredBlobs(tmp) ==
    IF \E m \in tmp : IsBlobPath(m.path)
    THEN Some({[name |-> m.path[2], bytes |-> m.bytes] : m \in {x \in tmp : IsBlobPath(x.path)}})
    ELSE None

\* Lines 297-299: rename db.sqlite to db.sqlite_backup_<ts>.
RDbAside ==
    /\ r_pc = "db_aside"
    /\ \/ /\ NoFault
          /\ liveDb # None
          /\ asideDb' = TRUE
          /\ liveDb' = None
          /\ r_pc' = "db_in"
          /\ UNCHANGED r_result
       \/ /\ NoFault
          /\ liveDb = None
          /\ r_pc' = "db_in"
          /\ UNCHANGED <<asideDb, liveDb, r_result>>
       \/ /\ Fault
          /\ liveDb # None
          /\ RFail("io")
          /\ UNCHANGED <<asideDb, liveDb>>
    /\ UNCHANGED <<sec, auxVars, calls, captured, liveBlobs, encFiles, zipTmp, restoreTmp, asideBlobs,
                   repoVars, bVars, r_pwd, r_zip, r_idx, r_pre, cleanupVars>>

\* Lines 301-304: rename the extracted db.sqlite to the live path.
RDbIn ==
    /\ r_pc = "db_in"
    /\ \/ /\ NoFault
          /\ RestoredDb(The(restoreTmp)) # None
          /\ liveDb' = RestoredDb(The(restoreTmp))
          /\ restoreTmp' = Some({m \in The(restoreTmp) : m.path # DbPath})
          /\ r_pc' = "blobs_aside"
          /\ UNCHANGED r_result
       \/ /\ NoFault
          /\ RestoredDb(The(restoreTmp)) = None
          /\ r_pc' = "blobs_aside"
          /\ UNCHANGED <<liveDb, restoreTmp, r_result>>
       \/ /\ Fault
          /\ RestoredDb(The(restoreTmp)) # None
          /\ RFail("io")
          /\ UNCHANGED <<liveDb, restoreTmp>>
    /\ UNCHANGED <<sec, auxVars, calls, captured, liveBlobs, encFiles, zipTmp, asideDb, asideBlobs,
                   repoVars, bVars, r_pwd, r_zip, r_idx, r_pre, cleanupVars>>

\* A swap that leaves the live blobs directory where it is.
NotRenamedAside(dir) == dir

\* Line 312: what is under the live path once fs::rename has moved the
\* directory to the aside path.
RenamedAside(dir) == None

\* Lines 311-313: rename blobs to blobs_backup_<ts>.
RBlobsAside ==
    /\ r_pc = "blobs_aside"
    /\ \/ /\ NoFault
          /\ liveBlobs # None
          /\ asideBlobs' = TRUE
          /\ liveBlobs' = RenamedAside(liveBlobs)
          /\ r_pc' = "blobs_in"
          /\ UNCHANGED r_result
       \/ /\ NoFault
          /\ liveBlobs = None
          /\ r_pc' = "blobs_in"
          /\ UNCHANGED <<asideBlobs, liveBlobs, r_result>>
       \/ /\ Fault
          /\ liveBlobs # None
          /\ RFail("io")
          /\ UNCHANGED <<asideBlobs, liveBlobs>>
    /\ UNCHANGED <<sec, auxVars, calls, captured, liveDb, encFiles, zipTmp, restoreTmp, asideDb,
                   repoVars, bVars, r_pwd, r_zip, r_idx, r_pre, cleanupVars>>

\* Lines 315-321: rename the extracted blobs directory to the live path, or
\* create an empty one.
RBlobsIn ==
    /\ r_pc = "blobs_in"
    /\ \/ /\ NoFault
          /\ RestoredBlobs(The(restoreTmp)) # None
          /\ liveBlobs' = RestoredBlobs(The(restoreTmp))
          /\ restoreTmp' = Some({m \in The(restoreTmp) : ~IsBlobPath(m.path)})
          /\ r_pc' = "finish"
          /\ UNCHANGED r_result
       \/ /\ NoFault
          /\ RestoredBlobs(The(restoreTmp)) = None
          /\ liveBlobs' = IF liveBlobs = None THEN Some({}) ELSE liveBlobs
          /\ r_pc' = "finish"
          /\ UNCHANGED <<restoreTmp, r_result>>
       \/ /\ Fault
          /\ RFail("io")
          /\ UNCHANGED <<liveBlobs, restoreTmp>>
    /\ UNCHANGED <<sec, auxVars, calls, captured, liveDb, encFiles, zipTmp, asideDb, asideBlobs,
                   repoVars, bVars, r_pwd, r_zip, r_idx, r_pre>>
    /\ UNCHANGED cleanupVars

\* Lines 324-335: remove the extraction directory (a failure is ignored),
\* spawn the cleanup task, return Ok.
RFinish ==
    /\ r_pc = "finish"
    /\ \/ NoFault /\ restoreTmp' = None
       \/ Fault /\ UNCHANGED restoreTmp
    /\ cleanupPending' = TRUE
    /\ graceElapsed' = FALSE
    /\ r_pc' = "returned"
    /\ r_result' = Ok(None)
    /\ UNCHANGED <<sec, auxVars, calls, captured, liveDb, liveBlobs, encFiles, zipTmp, asideDb, asideBlobs,
                   repoVars, bVars, r_pwd, r_zip, r_idx, r_pre>>

\* The caller has the result.  No later call reads or writes a name that
\* carries the timestamp of this one, so what the call left under
\* restore_temp_<ts>, and after a failure under the two aside names, is
\* followed no further.
RReturn ==
    /\ r_pc = "returned"
    /\ r_pc' = "idle"
    /\ r_pwd' = "" /\ r_zip' = NoArchive /\ r_idx' = 0
    /\ r_result' = NoResult /\ r_pre' = NoSnapshot
    /\ restoreTmp' = None
    /\ IF cleanupPending
       THEN UNCHANGED <<asideDb, asideBlobs>>
       ELSE asideDb' = FALSE /\ asideBlobs' = FALSE
    /\ UNCHANGED <<sec, auxVars, calls, captured, faults, liveDb, liveBlobs, encFiles, zipTmp, repoVars, bVars,
                   cleanupVars>>

\* A cleanup that does not sleep before it removes.
GraceIgnored(elapsed) == TRUE

\* Line 328: tokio::time::sleep(60 s) has returned.
GraceOver(elapsed) == elapsed

\* Line 328: the 60 seconds of the spawned task pass.
GraceElapses ==
    /\ cleanupPending
    /\ ~graceElapsed
    /\ graceElapsed' = TRUE
    /\ UNCHANGED <<sec, auxVars, calls, captured, faults, diskVars, repoVars, bVars, rVars,
                   cleanupPending>>

\* Lines 329-330: the spawned task, once its 60 seconds have passed, removes
\* the two aside copies; a removal that fails is ignored and the copies stay.
Cleanup ==
    /\ cleanupPending
    /\ GraceOver(graceElapsed)
    /\ r_pc # "returned"
    /\ cleanupPending' = FALSE
    /\ graceElapsed' = FALSE
    /\ \/ NoFault /\ asideDb' = FALSE /\ asideBlobs' = FALSE
       \/ Fault /\ (asideDb \/ asideBlobs) /\ UNCHANGED <<asideDb, asideBlobs>>
    /\ UNCHANGED <<sec, auxVars, calls, captured, liveDb, liveBlobs, encFiles, zipTmp, restoreTmp,
                   repoVars, bVars, rVars>>

\* ------------------------------------------------------------------ create_backup

BFail(e) ==
    /\ b_pc' = "returned"
    /\ b_result' = Err(e)

\* Lines 61-80: the timestamp of the call names the backup file and the
\* temporary ZIP, which File::create creates.
BBegin(password) ==
    /\ b_pc = "idle"
    /\ calls < MaxCalls
    /\ calls' = calls + 1
    /\ b_pwd' = password
    /\ b_ts' = sec
    /\ b_pre' = [db |-> liveDb, blobs |-> liveBlobs, files |-> encFiles, records |-> records]
    /\ \/ /\ NoFault
          /\ zipTmp' = zipTmp \cup {sec}
          /\ b_pc' = "pkg_db"
          /\ b_result' = NoResult
       \/ /\ Fault
          /\ BFail("io")
          /\ UNCHANGED zipTmp
    /\ UNCHANGED <<sec, auxVars, captured, liveDb, liveBlobs, encFiles, restoreTmp, asideDb, asideBlobs,
                   repoVars, b_db, b_zip, b_enc, rVars, cleanupVars>>

\* Lines 84-99: db.sqlite is read when it exists.
BPkgDb ==
    /\ b_pc = "pkg_db"
    /\ \/ /\ NoFault
          /\ b_db' = liveDb
          /\ b_pc' = "pkg_blobs"
          /\ UNCHANGED b_result
       \/ /\ Fault
          /\ liveDb # None
          /\ BFail("io")
          /\ UNCHANGED b_db
    /\ UNCHANGED <<sec, auxVars, calls, captured, diskVars, repoVars, b_pwd, b_ts, b_zip, b_enc, b_pre,
                   rVars, cleanupVars>>

\* scan_directory returns nothing for a directory that does not exist.
BlobsDir(dir) == IF dir = None THEN {} ELSE The(dir)

\* Lines 102-135: every blob list_all returns is read and added, then the
\* manifest, and the ZIP is finished.
BPkgBlobs ==
    /\ b_pc = "pkg_blobs"
    /\ \/ /\ NoFault
          /\ \E order \in Orders(list_all(BlobsDir(liveBlobs))) :
                b_zip' = PackageArchive(b_ts, b_db, BlobsDir(liveBlobs), order)
          /\ b_pc' = "write"
          /\ UNCHANGED b_result
       \/ /\ Fault
          /\ BFail("io")
          /\ UNCHANGED b_zip
    /\ UNCHANGED <<sec, auxVars, calls, captured, diskVars, repoVars, b_pwd, b_ts, b_db, b_enc, b_pre,
                   rVars, cleanupVars>>

\* Lines 140-149: the ZIP is read back, encrypted and serialized, and
\* fs::write opens backup_<ts>.enc, truncating what is there.
BWriteStart ==
    /\ b_pc = "write"
    /\ \/ /\ NoFault
          /\ \E salt \in Salts, nonce \in Nonces :
                b_enc' = encrypt(b_zip, b_pwd, salt, nonce)
          /\ encFiles' = [encFiles EXCEPT ![b_ts] = Some(PartialFile)]
          /\ captured' = [captured EXCEPT ![b_ts] = None]
          /\ b_pc' = "writing"
          /\ UNCHANGED b_result
       \/ /\ Fault
          /\ BFail("io")
          /\ UNCHANGED <<b_enc, encFiles, captured>>
    /\ UNCHANGED <<sec, auxVars, calls, liveDb, liveBlobs, zipTmp, restoreTmp, asideDb, asideBlobs,
                   repoVars, b_pwd, b_ts, b_db, b_zip, b_pre, rVars, cleanupVars>>

\* Line 149: fs::write writes the bytes to the open file; it can stop midway.
BWriteEnd ==
    /\ b_pc = "writing"
    /\ \/ /\ NoFault
          /\ encFiles' = [encFiles EXCEPT ![b_ts] = Some(b_enc)]
          /\ captured' = [captured EXCEPT ![b_ts] = Some([db |-> b_pre.db, blobs |-> BlobsDir(b_pre.blobs)])]
          /\ b_pc' = "rm_tmp"
          /\ UNCHANGED b_result
       \/ /\ Fault
          /\ BFail("io")
          /\ UNCHANGED <<encFiles, captured>>
    /\ UNCHANGED <<sec, auxVars, calls, liveDb, liveBlobs, zipTmp, restoreTmp, asideDb, asideBlobs,
                   repoVars, b_pwd, b_ts, b_db, b_zip, b_enc, b_pre, rVars,
                   cleanupVars>>

\* Line 152: the temporary ZIP is removed.
BRmTmp ==
    /\ b_pc = "rm_tmp"
    /\ \/ /\ NoFault
          /\ b_ts \in zipTmp
          /\ zipTmp' = zipTmp \ {b_ts}
          /\ b_pc' = "record"
          /\ UNCHANGED b_result
       \/ /\ Fault \/ (NoFault /\ b_ts \notin zipTmp)
          /\ BFail("io")
          /\ UNCHANGED zipTmp
    /\ UNCHANGED <<sec, auxVars, calls, captured, liveDb, liveBlobs, encFiles, restoreTmp, asideDb, asideBlobs,
                   repoVars, b_pwd, b_ts, b_db, b_zip, b_enc, b_pre, rVars,
                   cleanupVars>>

RECURSIVE SumSizes(_)
SumSizes(members) ==
    IF members = {} THEN 0
    ELSE LET m == CHOOSE x \in members : TRUE
         IN  Len(m.bytes) + SumSizes(members \ {m})

\* fs::metadata(..).len(): grows with the bytes sealed in the file.
FileSize(file) ==
    IF file.kind = "envelope" THEN 1 + SumSizes(file.ciphertext.plaintext.files) ELSE 0

\* A row that records the size read before the file was written.
BackupRowSizeBeforeWrite(rows, path, size, manifest_hash) ==
    [timestamp |-> Len(rows) + 1, path |-> path, size |-> 0,
     manifest_hash |-> manifest_hash]

\* Repository::record_backup: the row inserted, stamped with the time of the
\* insertion, which is later than that of every row before it.
BackupRow(rows, path, size, manifest_hash) ==
    [timestamp |-> Len(rows) + 1, path |-> path, size |-> size,
     manifest_hash |-> manifest_hash]

\* Lines 155-167: the size of the file written is read and the backup recorded.
BRecord ==
    /\ b_pc = "record"
    /\ \/ /\ NoFault
          /\ encFiles[b_ts] # None
          /\ records' = Append(records,
                BackupRow(records, b_ts, FileSize(The(encFiles[b_ts])),
                          calculate_checksum(The(b_zip.manifest))))
          /\ b_pc' = "retention"
          /\ UNCHANGED b_result
       \/ /\ Fault \/ (NoFault /\ encFiles[b_ts] = None)
          /\ BFail("io")
          /\ UNCHANGED records
    /\ UNCHANGED <<sec, auxVars, calls, captured, diskVars, retention, b_pwd, b_ts, b_db, b_zip, b_enc, b_pre,
                   rVars, cleanupVars>>

\* Lines 207-214
get_retention_count(setting) ==
    IF setting = None THEN Some(DEFAULT_RETENTION_COUNT) ELSE ParseUsize(The(setting))

Range(q) == {q[i] : i \in 1..Len(q)}

\* Lines 187-192: the rows past the first retention_count of the rows sorted
\* newest first.
RowsToPrune(rows, retention_count) ==
    {r \in Range(rows) :
        Cardinality({q \in Range(rows) : q.timestamp > r.timestamp}) >= retention_count}

\* Lines 192-201: remove_file for each row of to_delete; the rows stay.
RemoveFiles(files, to_delete) ==
    [s \in DOMAIN files |-> IF \E r \in to_delete : r.path = s THEN None ELSE files[s]]

\* Lines 172-174 and 178-204: apply_retention_policy, whose error
\* create_backup returns, then Ok(backup_path).  A remove_file that fails
\* is logged and the sweep goes on.
BRetention ==
    /\ b_pc = "retention"
    /\ LET count == get_retention_count(retention)
           to_delete == IF count = None \/ Len(records) <= The(count)
                        THEN {}
                        ELSE RowsToPrune(records, The(count))
           Sweep(removed) ==
               /\ encFiles' = RemoveFiles(encFiles, removed)
               /\ captured' = RemoveFiles(captured, removed)
               /\ b_pc' = "returned"
               /\ b_result' = Ok(Some(b_ts))
       IN  \/ /\ count = None
              /\ NoFault
              /\ BFail("Invalid retention count")
              /\ UNCHANGED <<encFiles, captured>>
           \/ /\ count # None
              /\ NoFault
              /\ Sweep(to_delete)
           \/ /\ count # None
              /\ Fault
              /\ \E r \in to_delete : Sweep(to_delete \ {r})
           \/ /\ Fault
              /\ BFail("db")
              /\ UNCHANGED <<encFiles, captured>>
    /\ UNCHANGED <<sec, auxVars, calls, liveDb, liveBlobs, zipTmp, restoreTmp, asideDb, asideBlobs,
                   repoVars, b_pwd, b_ts, b_db, b_zip, b_enc, b_pre, rVars,
                   cleanupVars>>

\* The caller has the result.
BReturn ==
    /\ b_pc = "returned"
    /\ b_pc' = "idle"
    /\ b_pwd' = "" /\ b_ts' = 0 /\ b_db' = None /\ b_zip' = NoArchive
    /\ b_enc' = GarbageFile /\ b_result' = NoResult /\ b_pre' = NoSnapshot
    /\ UNCHANGED <<sec, auxVars, calls, captured, faults, diskVars, repoVars, rVars, cleanupVars>>

\* ------------------------------------------------------------------ the rest of the application

\* The clock.
Tick ==
    /\ sec < MaxSec
    /\ sec' = sec + 1
    /\ UNCHANGED <<calls, auxVars, captured, faults, diskVars, repoVars, bVars, rVars, cleanupVars>>

\* A note is created, updated or deleted: the database file changes.
UpdateNote(image) ==
    /\ liveDb # None
    /\ liveDb # Some(image)
    /\ liveDb' = Some(image)
    /\ UNCHANGED <<sec, auxVars, calls, captured, faults, liveBlobs, encFiles, zipTmp, restoreTmp, asideDb, asideBlobs,
                   repoVars, bVars, rVars, cleanupVars>>

\* BlobStore::write of an attachment; the fan-out directories are created
\* with their parents.
BlobWrite(data) ==
    /\ liveBlobs # Some(BlobStoreWrite(BlobsDir(liveBlobs), data))
    /\ liveBlobs' = Some(BlobStoreWrite(BlobsDir(liveBlobs), data))
    /\ UNCHANGED <<sec, auxVars, calls, captured, faults, liveDb, encFiles, zipTmp, restoreTmp, asideDb, asideBlobs,
                   repoVars, bVars, rVars, cleanupVars>>

\* BlobStore::delete
BlobDelete(data) ==
    /\ liveBlobs # None
    /\ BlobFile(data) \in The(liveBlobs)
    /\ liveBlobs' = Some(BlobStoreDelete(The(liveBlobs), calculate_hash(data)))
    /\ UNCHANGED <<sec, auxVars, calls, captured, faults, liveDb, encFiles, zipTmp, restoreTmp, asideDb, asideBlobs,
                   repoVars, bVars, rVars, cleanupVars>>

\* ------------------------------------------------------------------ blob store

\* What the blob store does not touch.
backupVars == <<sec, captured, liveDb, encFiles, zipTmp, restoreTmp, asideDb, asideBlobs,
                repoVars, bVars, rVars, cleanupVars, pkgVars, schedVars>>

\* The strings read, exists and delete are called with: the identifiers of
\* the blobs, the empty string, a three-character string, a word, and 64
\* uppercase hexadecimal digits.
StoreIdentifiers ==
    {calculate_hash(d) : d \in StoreDatas}
        \cup {Text(0, "hex"), Text(3, "hex"), Text(5, "other"), Text(64, "HEX")}

\* Names of files that reach the blobs directory without BlobStore::write.
ForeignNames == {Text(64, "HEX"), Text(63, "hex")}
ForeignBytes == <<9>>

Unit == "unit"
BlobNotFound == "Blob not found"

\* The bytes of a file after a writer has written `bytes` from offset 0:
\* every writer of one temp file writes the same bytes.
Written(cur, bytes) == IF Len(cur) >= Len(bytes) THEN cur ELSE bytes

\* A write through the handle File::create returned: it lands in the file the
\* handle's inode is linked at now, the temp path, the final path (the temp
\* file was renamed meanwhile) or nowhere (it was unlinked meanwhile).
WriteThrough(dir, at, hash, bytes) ==
    CASE at = "tmp" ->
            PutFile(dir, TempName(hash), Written(FileBytes(dir, TempName(hash)), bytes))
      [] at = "final" ->
            PutFile(dir, hash, Written(FileBytes(dir, hash), bytes))
      [] OTHER -> dir

\* The early return of write is never taken.
existsNever(dir, hash) == Ok(FALSE)

\* BlobStore::exists
exists(dir, hash) ==
    IF get_path(hash) = None THEN Panic
    ELSE Ok(PathExists(dir, The(get_path(hash))))

\* BlobStore::read
read(dir, hash) ==
    IF get_path(hash) = None THEN Panic
    ELSE IF ~PathExists(dir, The(get_path(hash))) THEN Err(BlobNotFound)
    ELSE Ok(FileBytes(dir, The(get_path(hash))))

\* BlobStore::write returns.
WReturn(w, data, result) ==
    /\ w_pc' = [w_pc EXCEPT ![w] = "idle"]
    /\ w_result' = [w_result EXCEPT ![w] = result]
    /\ written' = IF result.ok
                  THEN written \cup {[data |-> data, id |-> result.value]}
                  ELSE written

\* BlobStore::write continues at the next await point.
WGoto(w, pc) ==
    /\ w_pc' = [w_pc EXCEPT ![w] = pc]
    /\ w_result' = [w_result EXCEPT ![w] = NoResult]
    /\ UNCHANGED written

\* Lines 34-50: the hash, the early return when the final path exists, and
\* create_dir_all of the fan-out directories.
WBegin(w, data) ==
    /\ w_pc[w] = "idle"
    /\ calls < MaxCalls
    /\ calls' = calls + 1
    /\ w_data' = [w_data EXCEPT ![w] = data]
    /\ w_call' = [w_call EXCEPT ![w] = calls + 1]
    /\ w_known' = [w_known EXCEPT ![w] = \E e \in written : e.data = data]
    /\ LET hash == calculate_hash(data) IN
       \/ /\ exists(The(liveBlobs), hash) = Ok(TRUE)
          /\ NoFault
          /\ WReturn(w, data, Ok(hash))
       \/ /\ exists(The(liveBlobs), hash) = Ok(FALSE)
          /\ \/ NoFault /\ WGoto(w, "create")
             \/ Fault /\ WReturn(w, data, Err("io"))
    /\ UNCHANGED <<liveBlobs, w_at, lastCall, cryptoVars, backupVars>>

\* Lines 53-54: File::create(<hash>.tmp) creates the file or truncates it.
WCreate(w) ==
    /\ w_pc[w] = "create"
    /\ \/ /\ NoFault
          /\ liveBlobs' = Some(PutFile(The(liveBlobs), TempName(calculate_hash(w_data[w])), <<>>))
          /\ w_at' = [w_at EXCEPT ![w] = "tmp"]
          /\ WGoto(w, "write")
       \/ /\ Fault
          /\ WReturn(w, w_data[w], Err("io"))
          /\ UNCHANGED <<liveBlobs, w_at>>
    /\ UNCHANGED <<calls, w_data, w_call, w_known, lastCall, cryptoVars, backupVars>>

\* Lines 55-56: write_all and sync_all.  A failure leaves the first n bytes
\* written (all of them when it is sync_all that fails) and the temp file
\* in place.
WWriteAll(w) ==
    /\ w_pc[w] = "write"
    /\ LET hash == calculate_hash(w_data[w]) IN
       \/ /\ NoFault
          /\ liveBlobs' = Some(WriteThrough(The(liveBlobs), w_at[w], hash, w_data[w]))
          /\ WGoto(w, "rename")
          /\ UNCHANGED w_at
       \/ /\ Fault
          /\ \E n \in 0..Len(w_data[w]) :
                liveBlobs' = Some(WriteThrough(The(liveBlobs), w_at[w], hash,
                                               SubSeq(w_data[w], 1, n)))
          /\ WReturn(w, w_data[w], Err("io"))
          /\ w_at' = [w_at EXCEPT ![w] = "none"]
    /\ UNCHANGED <<calls, w_data, w_call, w_known, lastCall, cryptoVars, backupVars>>

\* Where the handles of the other writers point after the temp file of
\* `hash` was renamed over the final path by writer w.
AfterRename(w, hash) ==
    [v \in Writers |->
        IF v = w THEN "none"
        ELSE IF calculate_hash(w_data[v]) # hash THEN w_at[v]
        ELSE IF w_at[v] = "tmp" THEN "final"
        ELSE IF w_at[v] = "final" THEN "gone"
        ELSE w_at[v]]

\* Lines 59-63: fs::rename(<hash>.tmp, <hash>), which fails when the temp
\* file is no longer there, and Ok(hash).
WRename(w) ==
    /\ w_pc[w] = "rename"
    /\ LET hash == calculate_hash(w_data[w])
           dir == The(liveBlobs)
       IN  \/ /\ NoFault
              /\ PathExists(dir, TempName(hash))
              /\ liveBlobs' = Some(PutFile(RemoveFile(dir, TempName(hash)), hash,
                                           FileBytes(dir, TempName(hash))))
              /\ w_at' = AfterRename(w, hash)
              /\ WReturn(w, w_data[w], Ok(hash))
           \/ /\ NoFault
              /\ ~PathExists(dir, TempName(hash))
              /\ w_at' = [w_at EXCEPT ![w] = "none"]
              /\ WReturn(w, w_data[w], Err("io"))
              /\ UNCHANGED liveBlobs
           \/ /\ Fault
              /\ w_at' = [w_at EXCEPT ![w] = "none"]
              /\ WReturn(w, w_data[w], Err("io"))
              /\ UNCHANGED liveBlobs
    /\ UNCHANGED <<calls, w_data, w_call, w_known, lastCall, cryptoVars, backupVars>>

\* A call of read, exists, delete or list_all is made and returns.
Called(op, arg, result) ==
    /\ calls < MaxCalls
    /\ calls' = calls + 1
    /\ lastCall' = [op |-> op, arg |-> arg, result |-> result]

StoreRead(hash) ==
    /\ Called("read", hash, read(The(liveBlobs), hash))
    /\ UNCHANGED <<faults, liveBlobs, w_pc, w_data, w_call, w_at, w_result, w_known, written,
                   cryptoVars, backupVars>>

StoreExists(hash) ==
    /\ Called("exists", hash, exists(The(liveBlobs), hash))
    /\ UNCHANGED <<faults, liveBlobs, w_pc, w_data, w_call, w_at, w_result, w_known, written,
                   cryptoVars, backupVars>>

StoreListAll ==
    /\ Called("list_all", <<>>, Ok(list_all(The(liveBlobs))))
    /\ UNCHANGED <<faults, liveBlobs, w_pc, w_data, w_call, w_at, w_result, w_known, written,
                   cryptoVars, backupVars>>

\* BlobStore::delete: Ok when the path does not exist, else remove_file.
\* The handle of a writer whose temp file was renamed there is unlinked.
StoreDelete(hash) ==
    /\ written' = {e \in written : e.id # hash}
    /\ \/ /\ get_path(hash) = None
          /\ Called("delete", hash, Panic)
          /\ UNCHANGED <<faults, liveBlobs, w_at>>
       \/ /\ get_path(hash) # None
          /\ ~PathExists(The(liveBlobs), The(get_path(hash)))
          /\ Called("delete", hash, Ok(Unit))
          /\ UNCHANGED <<faults, liveBlobs, w_at>>
       \/ /\ get_path(hash) # None
          /\ PathExists(The(liveBlobs), The(get_path(hash)))
          /\ \/ /\ NoFault
                /\ Called("delete", hash, Ok(Unit))
                /\ liveBlobs' = Some(BlobStoreDelete(The(liveBlobs), The(get_path(hash))))
                /\ w_at' = [v \in Writers |->
                               IF calculate_hash(w_data[v]) = hash /\ w_at[v] = "final"
                               THEN "gone" ELSE w_at[v]]
             \/ /\ Fault
                /\ Called("delete", hash, Err("io"))
                /\ UNCHANGED <<liveBlobs, w_at>>
    /\ UNCHANGED <<w_pc, w_data, w_call, w_result, w_known, cryptoVars, backupVars>>

\* A file reaches the blobs directory without BlobStore::write: restore_backup
\* renames the extracted blobs directory of an archive into place, whatever
\* the names of its files.
ForeignFile(name) ==
    /\ ~PathExists(The(liveBlobs), name)
    /\ liveBlobs' = Some(PutFile(The(liveBlobs), name, ForeignBytes))
    /\ UNCHANGED <<calls, faults, storeVars, cryptoVars, backupVars>>

WriteSteps == \E w \in Writers : WCreate(w) \/ WWriteAll(w) \/ WRename(w)

StoreCalls ==
    \/ \E w \in Writers, data \in StoreDatas : WBegin(w, data)
    \/ \E hash \in StoreIdentifiers : StoreRead(hash)
    \/ \E hash \in StoreIdentifiers : StoreExists(hash)
    \/ \E hash \in StoreIdentifiers : StoreDelete(hash)
    \/ StoreListAll
    \/ \E name \in ForeignNames : ForeignFile(name)

\* ------------------------------------------------------------------ crypto calls

\* What encrypt is called with, and what OsRng returns to it.
CryptoPlaintexts == {<<>>, <<1>>, <<2, 2>>}
CryptoPasswords == Passwords \cup {""}
CryptoSalts == Salts \cup {"s2"}
CryptoNonces == Nonces \cup {"n2"}

\* The envelope with one byte of a field altered.
Altered(encrypted, field) ==
    CASE field = "salt" -> [encrypted EXCEPT !.salt = "altered"]
      [] field = "nonce" -> [encrypted EXCEPT !.nonce = "altered"]
      [] field = "ciphertext" -> [encrypted EXCEPT !.ciphertext.intact = FALSE]

\* What the crypto calls do not touch.
nonCryptoVars == <<calls, faults, liveBlobs, storeVars, backupVars>>

\* crypto::encrypt
CEncrypt(plaintext, password, salt, nonce) ==
    /\ c_env = GarbageFile
    /\ c_plain' = plaintext
    /\ c_pwd' = password
    /\ c_env' = encrypt(plaintext, password, salt, nonce)
    /\ UNCHANGED <<c_altered, c_try, c_result, c_restore, c_failed, nonCryptoVars>>

\* One byte of the stored envelope is altered; nothing was tried on the
\* altered envelope yet.
CAlter(field) ==
    /\ c_env # GarbageFile
    /\ c_altered = "none"
    /\ c_altered' = field
    /\ c_env' = Altered(c_env, field)
    /\ c_try' = ""
    /\ c_result' = NoResult
    /\ c_restore' = NoResult
    /\ UNCHANGED <<c_plain, c_pwd, c_failed, nonCryptoVars>>

\* The failures so far, with this result added when it is one: what was
\* wrong (the envelope altered, or else the password) and the error returned.
Failures(by, password, result) ==
    IF result.ok THEN c_failed
    ELSE c_failed \cup {[by |-> by,
                         cause |-> IF c_altered # "none" THEN "altered" ELSE "password",
                         err |-> result.err]}

\* crypto::decrypt
CDecrypt(password) ==
    /\ c_env # GarbageFile
    /\ c_try' = password
    /\ c_result' = DecryptResult(c_env, password)
    /\ c_failed' = Failures("decrypt", password, DecryptResult(c_env, password))
    /\ UNCHANGED <<c_plain, c_pwd, c_env, c_altered, c_restore, nonCryptoVars>>

\* restore_backup up to line 230, on a file holding the envelope.
CRestore(password) ==
    /\ c_env # GarbageFile
    /\ c_restore' = ReadAndDecrypt(Some(c_env), password)
    /\ c_failed' = Failures("restore_backup", password, ReadAndDecrypt(Some(c_env), password))
    /\ UNCHANGED <<c_plain, c_pwd, c_env, c_altered, c_try, c_result, nonCryptoVars>>

\* ------------------------------------------------------------------ scheduler

nonSchedVars == <<sec, calls, captured, diskVars, repoVars, bVars, rVars, cleanupVars,
                  storeVars, cryptoVars, pkgVars>>

\* The call of task t returns result; the guards it holds are dropped.
SchedReturns(t, result) ==
    /\ s_pc' = [s_pc EXCEPT ![t] = "returned"]
    /\ s_result' = [s_result EXCEPT ![t] = result]

\* Lines 226-227 and 127-129: cancel_backup returns Ok(()); a
\* schedule_backup that called it goes on.
CancelDone(t) ==
    IF s_op[t] = "cancel_backup"
    THEN SchedReturns(t, Ok(None))
    ELSE s_pc' = [s_pc EXCEPT ![t] = "check"] /\ UNCHANGED s_result

\* A task calls schedule_backup(frequency, enabled) or cancel_backup();
\* line 127: schedule_backup calls cancel_backup first.
SchedBegin(t, op, enabled) ==
    /\ s_pc[t] = "idle"
    /\ s_calls < MaxSchedCalls
    /\ s_calls' = s_calls + 1
    /\ s_op' = [s_op EXCEPT ![t] = op]
    /\ s_enabled' = [s_enabled EXCEPT ![t] = enabled]
    /\ s_pc' = [s_pc EXCEPT ![t] = "cancel"]
    /\ UNCHANGED <<faults, nonSchedVars, jobs, current_job_id, schedulerLock, jobIdLock, uuids, s_job,
                   s_result>>

\* Lines 213-215: the write lock of current_job_id is taken; with no job
\* recorded the function returns and the guard is dropped.
CancelLock(t) ==
    /\ s_pc[t] = "cancel"
    /\ jobIdLock = Free
    /\ IF current_job_id = None
       THEN CancelDone(t) /\ UNCHANGED jobIdLock
       ELSE /\ jobIdLock' = t
            /\ s_pc' = [s_pc EXCEPT ![t] = "remove"]
            /\ UNCHANGED s_result
    /\ UNCHANGED <<faults, nonSchedVars, jobs, current_job_id, schedulerLock, uuids, s_calls, s_op,
                   s_enabled, s_job>>

\* Lines 216-224: holding current_job_id, the write lock of scheduler is
\* taken and the job removed; current_job_id is cleared when remove succeeded.
CancelRemove(t) ==
    /\ s_pc[t] = "remove"
    /\ schedulerLock = Free
    /\ jobIdLock' = Free
    /\ \/ /\ NoFault
          /\ jobs' = jobs \ {The(current_job_id)}
          /\ current_job_id' = None
          /\ CancelDone(t)
       \/ /\ Fault
          /\ SchedReturns(t, Err("Failed to remove job"))
          /\ UNCHANGED <<jobs, current_job_id>>
    /\ UNCHANGED <<nonSchedVars, schedulerLock, uuids, s_calls, s_op, s_enabled, s_job>>

\* Lines 129-190: disabled returns Ok(()); no stored password returns an
\* error; otherwise the job is created, with a fresh identifier.
ScheduleCheck(t, has_auto_backup_password) ==
    /\ s_pc[t] = "check"
    /\ IF ~s_enabled[t]
       THEN SchedReturns(t, Ok(None)) /\ UNCHANGED <<uuids, s_job>>
       ELSE IF ~has_auto_backup_password
       THEN SchedReturns(t, Err("Auto-backup password not set")) /\ UNCHANGED <<uuids, s_job>>
       ELSE /\ uuids' = uuids + 1
            /\ s_job' = [s_job EXCEPT ![t] = uuids + 1]
            /\ s_pc' = [s_pc EXCEPT ![t] = "add"]
            /\ UNCHANGED s_result
    /\ UNCHANGED <<faults, nonSchedVars, jobs, current_job_id, schedulerLock, jobIdLock, s_calls, s_op,
                   s_enabled>>

\* Lines 193-197: the write lock of scheduler is taken and the job added;
\* the guard lives to the end of the function.
ScheduleAdd(t) ==
    /\ s_pc[t] = "add"
    /\ schedulerLock = Free
    /\ \/ /\ NoFault
          /\ schedulerLock' = t
          /\ jobs' = jobs \cup {s_job[t]}
          /\ s_pc' = [s_pc EXCEPT ![t] = "store"]
          /\ UNCHANGED s_result
       \/ /\ Fault
          /\ SchedReturns(t, Err("Failed to schedule job"))
          /\ UNCHANGED <<schedulerLock, jobs>>
    /\ UNCHANGED <<nonSchedVars, current_job_id, jobIdLock, uuids, s_calls, s_op, s_enabled, s_job>>

\* Lines 200-208: holding scheduler, the write lock of current_job_id is
\* taken and the identifier stored; Ok(()) drops both guards.
ScheduleStore(t) ==
    /\ s_pc[t] = "store"
    /\ jobIdLock = Free
    /\ current_job_id' = Some(s_job[t])
    /\ schedulerLock' = Free
    /\ SchedReturns(t, Ok(None))
    /\ UNCHANGED <<faults, nonSchedVars, jobs, jobIdLock, uuids, s_calls, s_op, s_enabled, s_job>>

\* The caller has the result.
SchedReturn(t) ==
    /\ s_pc[t] = "returned"
    /\ s_pc' = [s_pc EXCEPT ![t] = "idle"]
    /\ s_op' = [s_op EXCEPT ![t] = "none"]
    /\ s_enabled' = [s_enabled EXCEPT ![t] = FALSE]
    /\ s_job' = [s_job EXCEPT ![t] = 0]
    /\ s_result' = [s_result EXCEPT ![t] = NoResult]
    /\ UNCHANGED <<faults, nonSchedVars, jobs, current_job_id, schedulerLock, jobIdLock, uuids, s_calls>>

\* ------------------------------------------------------------------ specifications

BackupSteps ==
    BPkgDb \/ BPkgBlobs \/ BWriteStart \/ BWriteEnd \/ BRmTmp \/ BRecord \/ BRetention \/ BReturn

RestoreSteps ==
    \/ RMkTemp \/ RVerifyEntry
    \/ RDbAside \/ RDbIn \/ RBlobsAside \/ RBlobsIn \/ RFinish \/ RReturn

Application ==
    \/ Tick
    \/ \E image \in DbImages : UpdateNote(image)
    \/ \E data \in BlobDatas : BlobWrite(data)
    \/ \E data \in BlobDatas : BlobDelete(data)

\* The commands and the scheduler's job are tasks of one runtime and share
\* one BackupService, which holds no lock: a create_backup and a
\* restore_backup start and take their steps whatever the other is doing.
\* Notes and attachments are edited between the calls.
Next ==
    \/ \E password \in BackupPasswords : BBegin(password)
    \/ BackupSteps
    \/ \E file \in RestoreInputs, password \in Passwords : RBegin(file, password)
    \/ RestoreSteps
    \/ GraceElapses
    \/ Cleanup
    \/ b_pc = "idle" /\ r_pc = "idle" /\ Application

\* The concurrent runs are followed for the retention count never set.
InitDefault == Init /\ retention = None

Spec == InitDefault /\ [][Next]_vars

\* One call at a time, and nothing else between its start and its return:
\* the runs in which what a call found and what it left can be compared.
NextSeq ==
    \/ r_pc = "idle" /\ \E password \in BackupPasswords : BBegin(password)
    \/ BackupSteps
    \/ b_pc = "idle" /\ \E file \in RestoreInputs, password \in Passwords : RBegin(file, password)
    \/ RestoreSteps
    \/ GraceElapses
    \/ Cleanup
    \/ b_pc = "idle" /\ r_pc = "idle" /\ Application

SpecSeq == Init /\ [][NextSeq]_vars

\* restore_backup and the task it spawns, with notes and attachments edited
\* between the calls. The runtime keeps polling the restore's future and the
\* spawned task, and the task's sleep returns: each of the three keeps
\* taking its steps while it has one to take.
NextRestore ==
    \/ \E file \in RestoreInputs, password \in Passwords : RBegin(file, password)
    \/ RestoreSteps
    \/ GraceElapses
    \/ Cleanup
    \/ r_pc = "idle" /\ \E image \in DbImages : UpdateNote(image)
    \/ r_pc = "idle" /\ \E data \in BlobDatas : BlobWrite(data)

SpecRestoreFair ==
    /\ InitDefault
    /\ [][NextRestore]_vars
    /\ WF_vars(RestoreSteps)
    /\ WF_vars(GraceElapses)
    /\ WF_vars(Cleanup)

\* BlobStore is Clone and holds no lock: the commands that create, read and
\* delete attachments are tasks of one runtime and take their steps whatever
\* the others are doing.
NextStore == WriteSteps \/ StoreCalls

SpecStore == InitDefault /\ [][NextStore]_vars

\* One call of the blob store at a time.
NextStoreSeq ==
    \/ WriteSteps
    \/ (\A w \in Writers : w_pc[w] = "idle") /\ StoreCalls

SpecStoreSeq == InitDefault /\ [][NextStoreSeq]_vars

\* An envelope is sealed, possibly altered, and opened with any password.
NextCrypto ==
    \/ \E plaintext \in CryptoPlaintexts, password \in CryptoPasswords,
          salt \in CryptoSalts, nonce \in CryptoNonces :
            CEncrypt(plaintext, password, salt, nonce)
    \/ \E field \in {"salt", "nonce", "ciphertext"} : CAlter(field)
    \/ \E password \in CryptoPasswords : CDecrypt(password)
    \/ \E password \in CryptoPasswords : CRestore(password)

SpecCrypto == InitDefault /\ [][NextCrypto]_vars

\* The states two backups can find: db.sqlite absent or present, and any
\* set of blobs in the blobs directory.
InitPackage ==
    /\ InitLive
    /\ retention = None
    /\ p_db \in {None} \cup {Some(image) : image \in DbImages}
    /\ p_blobs \in SUBSET {BlobFile(data) : data \in StoreDatas}

\* Lines 71-135 of a create_backup that finds that state: the clock reads
\* ts and list_all returns the identifiers in some order.
PPackage(ts, order) ==
    /\ p_second = NoArchive
    /\ IF p_first = NoArchive
       THEN p_first' = PackageArchive(ts, p_db, p_blobs, order) /\ UNCHANGED p_second
       ELSE p_second' = PackageArchive(ts, p_db, p_blobs, order) /\ UNCHANGED p_first
    /\ UNCHANGED <<p_db, p_blobs, sec, calls, captured, faults, diskVars, repoVars, bVars, rVars,
                   cleanupVars, storeVars, cryptoVars, schedVars>>

NextPackage ==
    \E ts \in Secs, order \in Orders(list_all(p_blobs)) : PPackage(ts, order)

SpecPackage == InitPackage /\ [][NextPackage]_vars

\* SchedulerService is shared through an Arc: the task spawned at startup
\* and the commands that save the auto-backup settings call it whatever the
\* others are doing, and each call takes its steps at its await points.
NextScheduler ==
    \E t \in Callers :
        \/ \E enabled \in BOOLEAN : SchedBegin(t, "schedule_backup", enabled)
        \/ SchedBegin(t, "cancel_backup", FALSE)
        \/ CancelLock(t)
        \/ CancelRemove(t)
        \/ \E has_auto_backup_password \in BOOLEAN : ScheduleCheck(t, has_auto_backup_password)
        \/ ScheduleAdd(t)
        \/ ScheduleStore(t)
        \/ SchedReturn(t)

SpecScheduler == InitDefault /\ [][NextScheduler]_vars

\* ------------------------------------------------------------------ properties

InRestore == r_pc \notin {"idle", "returned"}
InBackup == b_pc \notin {"idle", "returned"}
RestoreFailed == r_pc = "returned" /\ ~r_result.ok
RestoreSucceeded == r_pc = "returned" /\ r_result.ok
BackupFailed == b_pc = "returned" /\ ~b_result.ok
BackupSucceeded == b_pc = "returned" /\ b_result.ok

\* The member the archive holds for a manifest entry hashes to the recorded
\* checksum.
EntryVerified(archive, e) ==
    \E bytes \in by_name(archive, e.path) : calculate_checksum(bytes) = e.checksum

\* The member of a manifest entry lies in the extraction directory, or the
\* swap has already moved it to its live place.
EntryExtracted(archive, e) ==
    /\ restoreTmp # None
    /\ \E bytes \in by_name(archive, e.path) :
          \/ Member(e.path, bytes) \in The(restoreTmp)
          \/ e.path = DbPath /\ liveDb = Some(bytes)
          \/ /\ IsBlobPath(e.path)
             /\ liveBlobs # None
             /\ [name |-> e.path[2], bytes |-> bytes] \in The(liveBlobs)

AllEntriesVerified ==
    /\ ReadManifest(r_zip).ok
    /\ \A i \in 1..Len(ManifestFiles(r_zip)) :
          LET e == ManifestFiles(r_zip)[i]
          IN  e.path # ManifestPath =>
                  EntryVerified(r_zip, e) /\ EntryExtracted(r_zip, e)

\* C1: a step of restore_backup that changes the live database file or the
\* live blobs directory is taken only when every manifest entry other than
\* manifest.json has been extracted and hashes to its recorded checksum.
C1_SwapOnlyAfterVerification ==
    [][(InRestore /\ (liveDb' # liveDb \/ liveBlobs' # liveBlobs)) => AllEntriesVerified]_vars

\* C1: a restore has verified and extracted two entries and moved the live
\* database aside.
C1_Witness ==
    /\ r_pc = "db_in"
    /\ asideDb
    /\ liveDb = None
    /\ Len(ManifestFiles(r_zip)) = 2
    /\ AllEntriesVerified

\* The errors of a wrong password or tampered ciphertext, of a file that is no
\* envelope, of an archive or manifest that cannot be read, and of a checksum
\* mismatch.
VerificationErrors == {"decrypt", "format", "zip", "json", "checksum"}

C3_NoIntermediateStateOnFailure ==
    RestoreFailed =>
        /\ r_pre.db # None => liveDb # None
        /\ ~(asideDb /\ liveDb # None /\ ~asideBlobs)
        /\ ~(asideBlobs /\ liveBlobs # None /\ ~asideDb)

\* C4: a restore that returned an error left the live database, the live
\* blobs directory and the backups directory as they were, with no
\* extraction directory and no aside copy.
C4_FailedRestoreChangesNothing ==
    RestoreFailed =>
        /\ liveDb = r_pre.db
        /\ liveBlobs = r_pre.blobs
        /\ encFiles = r_pre.files
        /\ restoreTmp = None
        /\ ~asideDb /\ ~asideBlobs

\* The archive being restored is what backup_<s>.enc, written whole by a
\* create_backup, decrypts to under the password given.
RestoredFrom(s) ==
    /\ captured[s] # None
    /\ encFiles[s] # None
    /\ ParseEnvelope(The(encFiles[s])) # None
    /\ decrypt(The(encFiles[s]), r_pwd) = Some(r_zip)

C6_BackupAndRestoreExclusive == ~(InRestore /\ InBackup)

\* C7: every file under a final backup name holds a complete envelope.
C7_FinalNameNeverPartial ==
    \A s \in Secs :
        encFiles[s] # None =>
            /\ ParseEnvelope(The(encFiles[s])) # None
            /\ The(encFiles[s]).ciphertext.intact

\* C8: a create_backup that returned an error left the backups directory and
\* the backups table as they were when it was called.
C8_FailedBackupLeavesNothing ==
    BackupFailed => (encFiles = b_pre.files /\ records = b_pre.records)

\* C9: the path a create_backup returned names a file of the backups
\* directory that decrypts under the password to an archive with manifest.json.
C9_ReturnedPathHoldsBackup ==
    BackupSucceeded =>
        \E s \in Secs :
            /\ b_result.value = Some(s)
            /\ encFiles[s] # None
            /\ ParseEnvelope(The(encFiles[s])) # None
            /\ \E a \in decrypt(The(encFiles[s]), b_pwd) : a.zip /\ a.manifest # None

\* The rows a retention count of n keeps the files of.
NewestRows(rows, n) ==
    {r \in Range(rows) : Cardinality({q \in Range(rows) : q.timestamp > r.timestamp}) < n}

\* C10: with a retention count N and no failed call, once more than N
\* backups have succeeded exactly N backup files exist, they are the files of
\* the N newest rows, and every row is still listed.
C10_RetentionKeepsNewest ==
    (/\ BackupSucceeded
     /\ faults = 0
     /\ get_retention_count(retention) # None
     /\ Len(records) > The(get_retention_count(retention))) =>
        LET N == The(get_retention_count(retention))
            onDisk == {s \in Secs : encFiles[s] # None}
        IN  /\ Cardinality(onDisk) = N
            /\ onDisk = {r.path : r \in NewestRows(records, N)}
            /\ Len(records) = Len(b_pre.records) + 1
            /\ SubSeq(records, 1, Len(b_pre.records)) = b_pre.records

\* C11: a create_backup that wrote its backup file and recorded it returns
\* Ok with the path of that file, whatever the retention sweep met.
C11_RetentionFailureNotFatal ==
    (/\ b_pc = "returned"
     /\ Len(records) > Len(b_pre.records)) =>
        (b_result.ok /\ b_result.value = Some(b_ts))

\* The files under the final path of a blob: the names that are digests.
FinalFiles == {f \in The(liveBlobs) : f.name \in {calculate_hash(d) : d \in StoreDatas}}

\* C12: every file under the final path of a blob holds the complete bytes
\* whose SHA-256 is its name.
C12_FinalPathHoldsWholeBlob ==
    \A f \in FinalFiles : calculate_hash(f.bytes) = f.name

\* C13: a write of bytes an earlier write has returned the identifier of
\* returns that identifier without a step on the disk, and list_all reports
\* one entry with those bytes.
C13_RepeatedWriteIsNoOp ==
    [][\A w \in Writers :
        (w_call'[w] # w_call[w] /\ w_known'[w]) =>
            /\ liveBlobs' = liveBlobs
            /\ w_pc'[w] = "idle"
            /\ \E e \in written : e.data = w_data'[w] /\ w_result'[w] = Ok(e.id)
            /\ Cardinality({f \in The(liveBlobs') :
                              /\ f.name \in list_all(The(liveBlobs'))
                              /\ f.bytes = w_data'[w]}) = 1]_vars

\* A second write of the same bytes has returned.
C13_Witness ==
    \E w \in Writers :
        /\ w_known[w]
        /\ w_pc[w] = "idle"
        /\ w_result[w] = Ok(calculate_hash(w_data[w]))

\* C14: from the return of write(b) = h until delete(h) is called, whatever
\* is written and deleted meanwhile, exists(h) is true and read(h) returns b.
C14_StoredBlobStaysReadable ==
    \A e \in written :
        /\ exists(The(liveBlobs), e.id) = Ok(TRUE)
        /\ read(The(liveBlobs), e.id) = Ok(e.data)

\* A blob is stored, and another one was written and then deleted.
C14_Witness ==
    \E e \in written, w \in Writers :
        /\ w_data[w] # e.data
        /\ w_result[w] = Ok(calculate_hash(w_data[w]))
        /\ lastCall = [op |-> "delete", arg |-> calculate_hash(w_data[w]), result |-> Ok(Unit)]
        /\ ~PathExists(The(liveBlobs), calculate_hash(w_data[w]))

\* A read or delete of one of the identifiers `ids` is made in this step:
\* when no file is stored under the identifier, read fails with not-found,
\* delete returns Ok and the store is unchanged; after a delete that
\* returned Ok, exists is false.
AbsentBlobCalls(ids) ==
    (lastCall' # lastCall /\ lastCall'.op \in {"read", "delete"} /\ lastCall'.arg \in ids) =>
        LET h == lastCall'.arg IN
        /\ ~PathExists(The(liveBlobs), h) =>
              /\ liveBlobs' = liveBlobs
              /\ lastCall'.op = "read" => lastCall'.result = Err(BlobNotFound)
              /\ lastCall'.op = "delete" => lastCall'.result = Ok(Unit)
        /\ (lastCall'.op = "delete" /\ lastCall'.result.ok) =>
              exists(The(liveBlobs'), h) = Ok(FALSE)

\* C15: read of an identifier with no stored blob fails with not-found,
\* delete of it returns Ok, neither changes the store, and after a delete
\* that returned Ok exists is false.
C15_AbsentBlobReadAndDelete == [][AbsentBlobCalls(StoreIdentifiers)]_vars

\* The same for the identifiers of at least four characters only.
AbsentBlobLongIdentifiers ==
    [][AbsentBlobCalls({h \in StoreIdentifiers : NameLen(h) >= 4})]_vars

\* C16: exists returns a boolean for every identifier string.
C16_ExistsNeverFails ==
    lastCall.op = "exists" =>
        (lastCall.result.ok /\ lastCall.result.value \in BOOLEAN)

\* C17: list_all returns the names of 64 lowercase hexadecimal digits, and
\* each stored blob's identifier.
C17_ListAllOnlyBlobIdentifiers ==
    lastCall.op = "list_all" =>
        /\ lastCall.result.ok
        /\ \A n \in lastCall.result.value : NameLen(n) = 64 /\ IsLowerHex(n)
        /\ \A e \in written : e.id \in lastCall.result.value

\* C18: decrypt of what encrypt returned, under the same password, returns
\* the plaintext, the empty plaintext included.
C18_EncryptDecryptRoundTrip ==
    (c_result # NoResult /\ c_altered = "none" /\ c_try = c_pwd) =>
        c_result = Ok(Some(c_plain))

\* The empty plaintext was sealed and opened again.
C18_Witness ==
    c_plain = <<>> /\ c_altered = "none" /\ c_try = c_pwd /\ c_result = Ok(Some(<<>>))

\* C19: decrypt fails under a password other than the sealing one, and
\* under every password once a byte of salt, nonce or ciphertext is altered.
C19_WrongPasswordOrAlteredFails ==
    (c_result # NoResult /\ (c_try # c_pwd \/ c_altered # "none")) => ~c_result.ok

\* decrypt was called under the sealing password on an altered envelope.
C19_Witness ==
    c_result # NoResult /\ c_try = c_pwd /\ c_altered # "none" /\ ~c_result.ok

\* C20: the failures of decrypt and of restore_backup for a wrong password
\* and for an altered envelope are one and the same error.
C20_FailuresIndistinguishable ==
    \A a \in c_failed, b \in c_failed : a.err = b.err

\* decrypt and restore_backup have failed for a wrong password and for an
\* altered envelope.
C20_Witness ==
    \A by \in {"decrypt", "restore_backup"}, cause \in {"password", "altered"} :
        \E a \in c_failed : a.by = by /\ a.cause = cause

\* The file entries of the manifest of an archive.
Entries(archive) == Range(The(archive.manifest).files)

\* C21: two backups of the same database bytes and the same blobs hold
\* manifests with the same file entries, each once, whatever the order
\* list_all returned the blobs in and whatever the clock read.
C21_SameStateSameEntries ==
    (p_first # NoArchive /\ p_second # NoArchive) =>
        /\ Entries(p_first) = Entries(p_second)
        /\ Len(The(p_first.manifest).files) = Cardinality(Entries(p_first))
        /\ Len(The(p_second.manifest).files) = Cardinality(Entries(p_second))

\* Two backups of one state were packaged at different times with the blobs
\* listed in different orders.
C21_Witness ==
    /\ p_first # NoArchive /\ p_second # NoArchive
    /\ The(p_first.manifest).timestamp # The(p_second.manifest).timestamp
    /\ The(p_first.manifest).files # The(p_second.manifest).files

\* The manifest of the archive lists the members of the archive, each once
\* with the size and SHA-256 of its bytes: db.sqlite when it exists and a
\* member blobs/<h> for each identifier of list_all, and not manifest.json.
ManifestListsArchive(archive, db, dir) ==
    /\ Len(The(archive.manifest).files) = Cardinality(archive.files)
    /\ {e.path : e \in Entries(archive)} = {x.path : x \in archive.files}
    /\ \A x \in archive.files :
          \E e \in Entries(archive) :
              /\ e.path = x.path
              /\ e.size = Len(x.bytes)
              /\ e.checksum = calculate_checksum(x.bytes)
    /\ {x \in archive.files : x.path = DbPath} =
          {Member(DbPath, d) : d \in db}
    /\ {x \in archive.files : x.path # DbPath} =
          {Member(BlobRelPath(h), FileBytes(dir, h)) : h \in list_all(dir)}
    /\ \A e \in Entries(archive) : e.path # ManifestPath

Phase(pc) ==
    CASE pc \in {"pkg_db", "pkg_blobs"} -> 1
      [] pc = "write" -> 2
      [] pc \in {"writing", "rm_tmp"} -> 3
      [] pc = "record" -> 4
      [] pc = "retention" -> 5
      [] OTHER -> 0

\* C23: create_backup moves from each phase to the next one or returns; a
\* row is inserted only in the Recording phase, when the final path holds
\* the whole envelope of this call, and carries the path, the size of that
\* file and the checksum of the manifest of this call; a backup file is
\* removed only in the RetentionSweep phase, after the row was inserted.
C23_PhasesInOrder ==
    [][/\ b_pc' # b_pc =>
             \/ Phase(b_pc') = 0
             \/ Phase(b_pc') = Phase(b_pc) + 1
             \/ Phase(b_pc') = Phase(b_pc)
       /\ records' # records =>
             /\ Phase(b_pc) = 4
             /\ encFiles[b_ts] = Some(b_enc)
             /\ b_enc = encrypt(b_zip, b_pwd, b_enc.salt, b_enc.nonce)
             /\ Len(records') = Len(records) + 1
             /\ SubSeq(records', 1, Len(records)) = records
             /\ records'[Len(records')].path = b_ts
             /\ records'[Len(records')].size = FileSize(b_enc)
             /\ records'[Len(records')].manifest_hash = calculate_checksum(The(b_zip.manifest))
       /\ (\E s \in Secs : encFiles[s] # None /\ encFiles'[s] = None) =>
             /\ Phase(b_pc) = 5
             /\ Len(records) = Len(b_pre.records) + 1]_vars

\* A create_backup has recorded its file and swept the old ones.
C23_Witness ==
    /\ BackupSucceeded
    /\ Len(records) = Len(b_pre.records) + 1
    /\ \E s \in Secs : b_pre.files[s] # None /\ encFiles[s] = None

\* The blobs of an archive: the members its manifest lists under blobs/.
ArchiveBlobs(archive) ==
    {[name |-> x.path[2], bytes |-> x.bytes] :
        x \in {m \in archive.files :
                 /\ IsBlobPath(m.path)
                 /\ \E e \in Range(ManifestFiles(archive)) : e.path = m.path}}

CleanupStep == cleanupPending /\ ~cleanupPending'

C26_BackupPathsDistinct ==
    /\ \A i, j \in 1..Len(records) : i # j => records[i].path # records[j].path
    /\ BackupSucceeded =>
          \A i \in 1..Len(b_pre.records) : b_pre.records[i].path # The(b_result.value)


\* C27: when create_backup has returned, with Ok or with an error, the
\* backups directory holds no <timestamp>.zip.tmp of that call.
C27_NoTempArchiveLeft ==
    b_pc = "returned" => b_ts \notin zipTmp


\* C28: a restore_backup that found a live db.sqlite and returns Ok leaves a
\* live db.sqlite, whatever the archive holds.
C28_LiveDbAfterRestore ==
    (RestoreSucceeded /\ r_pre.db # None) => liveDb # None


\* No task is inside schedule_backup or cancel_backup.
SchedulerQuiet == \A t \in Callers : s_pc[t] \in {"idle", "returned"}

\* C29: once the calls of schedule_backup and cancel_backup made so far have
\* returned, at most one job is registered, and current_job_id is Some(id)
\* exactly when the job id is the registered one: no job is registered that
\* current_job_id does not name.
C29_OneTrackedJob ==
    SchedulerQuiet =>
        /\ Cardinality(jobs) <= 1
        /\ \A id \in 1..MaxSchedCalls : (current_job_id = Some(id)) <=> (id \in jobs)

\* A task holds the lock of scheduler and waits for that of current_job_id
\* while another holds current_job_id and waits for scheduler.
LockOrderDeadlock ==
    \E a, b \in Callers :
        /\ a # b
        /\ schedulerLock = a /\ s_pc[a] = "store"
        /\ jobIdLock = b /\ s_pc[b] = "remove"

\* C30: the tasks inside schedule_backup and cancel_backup never wait for
\* each other's lock in a cycle, so that every call can still complete.
C30_NoLockOrderDeadlock == ~LockOrderDeadlock

====
